---- MODULE Spec2Model ----
(***************************************************************************)
(* Model of the playlist aggregation service of src/main.go: the POST      *)
(* /api/playlist/analyze handler, analyzePlaylist, getPlaylistVideos,      *)
(* getPlaylistId and getDurationSec, run against a remote video platform   *)
(* whose answers are chosen nondeterministically.                          *)
(*                                                                         *)
(* Strings are sequences of one-character strings, so that parsing is      *)
(* computed character by character as the code's library calls do.         *)
(***************************************************************************)
EXTENDS Integers, Sequences, FiniteSets, TLC

\* ------------------------------------------------------------ machine int

\* Width of the machine int. Go's int has 64 bits on the build's target;
\* TLC's integers have 32, so the model keeps the two's-complement
\* structure (range error in Atoi, wrap-around in + and *) at a smaller width.
IntBits == 16

IntMax == 2^(IntBits - 1) - 1

IntMin == -(2^(IntBits - 1))

\* Two's-complement wrap-around of a mathematical integer into the int range.
IntWrap(x) == ((x - IntMin) % (2^IntBits)) + IntMin

\* ------------------------------------------------------------ strings

DigitChars == {"0", "1", "2", "3", "4", "5", "6", "7", "8", "9"}

DigitVal(c) ==
    CASE c = "0" -> 0 [] c = "1" -> 1 [] c = "2" -> 2 [] c = "3" -> 3
      [] c = "4" -> 4 [] c = "5" -> 5 [] c = "6" -> 6 [] c = "7" -> 7
      [] c = "8" -> 8 [] c = "9" -> 9

\* s[from..to] (1-based, inclusive); empty when from > to.
Slice(s, from, to) == SubSeq(s, from, to)

\* All sequences over S of length 0..n.
SeqsUpTo(S, n) == UNION {[1..k -> S] : k \in 0..n}

\* strconv.Atoi on a non-empty string of decimal digits (the only strings the
\* regexp's (\d+) groups can capture): the value, or a range error when the
\* value does not fit the int. The accumulator saturates at IntMax + 1.
RECURSIVE DigitsValue(_)
DigitsValue(s) ==
    IF s = <<>> THEN 0
    ELSE LET prev == DigitsValue(Slice(s, 1, Len(s) - 1))
             v    == prev * 10 + DigitVal(s[Len(s)])
         IN  IF prev > IntMax \/ v > IntMax THEN IntMax + 1 ELSE v

Atoi(s) ==
    LET v == DigitsValue(s)
    IN  IF v > IntMax THEN [err |-> TRUE, val |-> 0]
        ELSE [err |-> FALSE, val |-> v]

\* ------------------------------------------------------------ getDurationSec

\* Index of the leftmost occurrence of "PT" in s, 0 when there is none
\* (regexp leftmost match: every group after PT is optional, so the match
\* starts at the first PT).
RECURSIVE FindPT(_, _)
FindPT(s, i) ==
    IF i + 1 > Len(s) THEN 0
    ELSE IF s[i] = "P" /\ s[i + 1] = "T" THEN i
    ELSE FindPT(s, i + 1)

\* Index just past the maximal run of digits of s that starts at i.
RECURSIVE DigitsEnd(_, _)
DigitsEnd(s, i) ==
    IF i <= Len(s) /\ s[i] \in DigitChars THEN DigitsEnd(s, i + 1) ELSE i

\* One optional group (?:(\d+)U)? tried at index i: the captured digits
\* ("" when the group does not take part) and the index after the group.
MatchGroup(s, i, unit) ==
    LET e == DigitsEnd(s, i)
    IN  IF e > i /\ e <= Len(s) /\ s[e] = unit
        THEN [cap |-> Slice(s, i, e - 1), next |-> e + 1]
        ELSE [cap |-> <<>>, next |-> i]

\* re.FindStringSubmatch(isoDuration) for PT(?:(\d+)H)?(?:(\d+)M)?(?:(\d+)S)?:
\* nil (no match) or the three captures.
FindStringSubmatch(s) ==
    LET p == FindPT(s, 1)
    IN  IF p = 0 THEN [nil |-> TRUE, m1 |-> <<>>, m2 |-> <<>>, m3 |-> <<>>]
        ELSE LET h  == MatchGroup(s, p + 2, "H")
                 m  == MatchGroup(s, h.next, "M")
                 sc == MatchGroup(s, m.next, "S")
             IN  [nil |-> FALSE, m1 |-> h.cap, m2 |-> m.cap, m3 |-> sc.cap]

\* Mutant of DurationSum: the minutes are weighted like hours.
DurationSum_MinutesAsHours(hours, minutes, seconds) ==
    IntWrap(IntWrap(IntWrap(hours * 3600) + IntWrap(minutes * 3600)) + seconds)

\* hours*3600 + minutes*60 + seconds in int arithmetic.
DurationSum(hours, minutes, seconds) ==
    IntWrap(IntWrap(IntWrap(hours * 3600) + IntWrap(minutes * 60)) + seconds)

\* getDurationSec(isoDuration): [panic, val]. matches[1] on a nil slice is an
\* index out of range, a run-time panic.
getDurationSec(isoDuration) ==
    LET matches == FindStringSubmatch(isoDuration)
    IN  IF matches.nil THEN [panic |-> TRUE, val |-> 0]
        ELSE LET h == IF matches.m1 # <<>> THEN Atoi(matches.m1)
                      ELSE [err |-> FALSE, val |-> 0]
                 m == IF matches.m2 # <<>> THEN Atoi(matches.m2)
                      ELSE [err |-> FALSE, val |-> 0]
                 s == IF matches.m3 # <<>> THEN Atoi(matches.m3)
                      ELSE [err |-> FALSE, val |-> 0]
             IN  IF h.err THEN [panic |-> FALSE, val |-> 0]
                 ELSE IF m.err THEN [panic |-> FALSE, val |-> 0]
                 ELSE IF s.err THEN [panic |-> FALSE, val |-> 0]
                 ELSE [panic |-> FALSE, val |-> DurationSum(h.val, m.val, s.val)]

\* ------------------------------------------------------------ getPlaylistId

\* Byte named by two hexadecimal digits, for the escapes the inputs use.
HexChars == {"0", "1", "2", "4"}

HexVal(c) == CASE c = "0" -> 0 [] c = "1" -> 1 [] c = "2" -> 2 [] c = "4" -> 4

ByteChar(n) ==
    CASE n = 32 -> " " [] n = 33 -> "!" [] n = 34 -> "\"" [] n = 36 -> "$"
      [] n = 64 -> "@" [] n = 65 -> "A" [] n = 66 -> "B" [] n = 68 -> "D"
      [] OTHER -> "?"

\* The ASCII control character of the inputs (0x7f).
CtlChar == "DEL"

\* Index of the first occurrence of character c in s at or after i, 0 if none.
RECURSIVE IndexFrom(_, _, _)
IndexFrom(s, c, i) ==
    IF i > Len(s) THEN 0 ELSE IF s[i] = c THEN i ELSE IndexFrom(s, c, i + 1)

Contains(s, c) == IndexFrom(s, c, 1) # 0

\* strings.Cut(s, sep): the text before and after the first sep.
Cut(s, sep) ==
    LET k == IndexFrom(s, sep, 1)
    IN  IF k = 0 THEN [before |-> s, after |-> <<>>, found |-> FALSE]
        ELSE [before |-> Slice(s, 1, k - 1), after |-> Slice(s, k + 1, Len(s)),
              found |-> TRUE]

\* A "%" at index i of s is followed by two hexadecimal digits.
GoodEscape(s, i) ==
    i + 2 <= Len(s) /\ s[i + 1] \in HexChars /\ s[i + 2] \in HexChars

\* url.unescape, first pass: some "%" is not followed by two hex digits.
RECURSIVE BadEscape(_, _)
BadEscape(s, i) ==
    IF i > Len(s) THEN FALSE
    ELSE IF s[i] = "%" THEN (~GoodEscape(s, i)) \/ BadEscape(s, i + 3)
    ELSE BadEscape(s, i + 1)

\* url.unescape, second pass: %XX becomes the byte, and in a query
\* component "+" becomes a space.
RECURSIVE Unescape(_, _, _)
Unescape(s, i, plus) ==
    IF i > Len(s) THEN <<>>
    ELSE IF s[i] = "%"
         THEN <<ByteChar(16 * HexVal(s[i + 1]) + HexVal(s[i + 2]))>>
              \o Unescape(s, i + 3, plus)
    ELSE IF s[i] = "+" /\ plus THEN <<" ">> \o Unescape(s, i + 1, plus)
    ELSE <<s[i]>> \o Unescape(s, i + 1, plus)

\* url.Parse(rawURL) for URLs without scheme and authority: the fragment is
\* cut off, a control character or a bad escape in the path is an error,
\* the raw query is what follows the first "?".
urlParse(rawURL) ==
    LET u    == Cut(rawURL, "#").before
        rest == Cut(u, "?")
    IN  IF Contains(u, CtlChar) THEN [err |-> TRUE, RawQuery |-> <<>>]
        ELSE IF BadEscape(rest.before, 1) THEN [err |-> TRUE, RawQuery |-> <<>>]
        ELSE [err |-> FALSE, RawQuery |-> rest.after]

\* url.ParseQuery followed by Values.Get(key): the pairs are separated by
\* "&"; a pair holding ";" or a bad escape is skipped; the first value
\* stored under key is returned, "" when there is none.
RECURSIVE QueryGet(_, _)
QueryGet(query, key) ==
    IF query = <<>> THEN <<>>
    ELSE LET c    == Cut(query, "&")
             pair == c.before
             kv   == Cut(pair, "=")
             skip == \/ pair = <<>>
                     \/ Contains(pair, ";")
                     \/ BadEscape(kv.before, 1)
                     \/ BadEscape(kv.after, 1)
         IN  IF ~skip /\ Unescape(kv.before, 1, TRUE) = key
             THEN Unescape(kv.after, 1, TRUE)
             ELSE QueryGet(c.after, key)

ListKey == <<"l", "i", "s", "t">>

\* Mutant of getPlaylistId: the query is read from the raw string, without
\* url.Parse and its error.
getPlaylistId_Unparsed(youtubeURL) ==
    QueryGet(Cut(youtubeURL, "?").after, ListKey)

getPlaylistId(youtubeURL) ==
    LET listURL == urlParse(youtubeURL)
    IN  IF listURL.err THEN <<>> ELSE QueryGet(listURL.RawQuery, ListKey)

\* ------------------------------------------------------------ state

VARIABLES
    request,          \* the POST body: [form, bodyOk, json]
    pc,               \* position of the request in the handler
    youtubeURL,       \* handler local
    playlistId,       \* handler local, argument of analyzePlaylist
    playlistData,     \* analyzePlaylist: response.Items of Playlists.List
    allVideoIDs,      \* getPlaylistVideos local
    nextPageToken,    \* getPlaylistVideos local (0 stands for "")
    i,                \* getPlaylistVideos: index of the batching loop
    allVideos,        \* getPlaylistVideos local
    totalDurationSec, \* getPlaylistVideos local
    videosRet,        \* what getPlaylistVideos returned: [videos, total, err]
    analyzeRet,       \* what analyzePlaylist returned: [playlist, err]
    response,         \* what the handler answered: [status, error, message, body]
    calls,            \* the remote calls issued so far, in order
    remotePages,      \* remote: the sizes of the playlist's listing pages
    remoteLoop,       \* remote: the continuation token of the last page
    catalog,          \* remote: the duration strings of the videos
    isoDuration,      \* input of a stand-alone getDurationSec call
    groups,           \* the unit groups isoDuration was written from, if any
    durationOut,      \* the call's result
    parked            \* the locals of a second request in flight, if any

vars == <<request, pc, youtubeURL, playlistId, playlistData, allVideoIDs,
          nextPageToken, i, allVideos, totalDurationSec, videosRet,
          analyzeRet, response, calls, remotePages, remoteLoop, catalog,
          isoDuration, groups, durationOut, parked>>

pipelineVars == <<request, pc, youtubeURL, playlistId, playlistData,
                  allVideoIDs, nextPageToken, i, allVideos, totalDurationSec,
                  videosRet, analyzeRet, response, calls, remotePages,
                  remoteLoop, catalog>>

\* ------------------------------------------------------------ bounds

\* Most listing pages the remote playlist has.
NPages == 3

\* Most PlaylistItems.List calls followed in one request (the loop of
\* getPlaylistVideos has no bound of its own; the remote may chain tokens
\* in a cycle).
MaxListCalls == NPages + 1

\* Longest digit string of a unit group in the enumerated duration tokens.
MaxDigits == 2

\* Longest arbitrary string given to getDurationSec.
MaxStrLen == 3

\* ------------------------------------------------------------ constants

\* MaxResults(50): the page-size cap sent with every listing call.
MaxResults == 50

\* The batching loop's step: i += 50, end := i + 50.
BatchSize == 50

StatusOK == 200

StatusBadRequest == 400

StatusInternalServerError == 500

\* A nil pointer, nil slice or nil error is the empty sequence; a value v that
\* may be nil is <<v>>. Error values are their message, a sequence of parts.
Nil == <<>>

Some(v) == <<v>>

\* The error of a failed remote call (call.Do()).
ErrUpstream == <<"upstream error">>

\* The error of a failed youtube.NewService.
ErrClient == <<"client error">>

ErrNotFound == <<"playlist not found or private">>

ErrEmpty == <<"playlist is empty or private">>

\* fmt.Errorf("error getting video details: %v", err)
ErrDetails(err) == <<"error getting video details: ">> \o err

\* ------------------------------------------------------------ inputs

\* The playlist URLs of the requests. A first element longer than one
\* character is a scheme and host, which url.Parse accepts as they are.
UrlFull == <<"https://www.youtube.com", "/", "p", "?", "v", "=", "1", "&", "l", "i", "s", "t", "=", "B">>

UrlEscaped == <<"/", "p", "?", "l", "i", "s", "t", "=", "%", "4", "1", "B">>

UrlTwice == <<"/", "p", "?", "l", "i", "s", "t", "=", "A", "&", "l", "i", "s", "t", "=", "B">>

UrlNoQuery == <<"/", "p">>

UrlEmptyList == <<"/", "p", "?", "v", "=", "1", "&", "l", "i", "s", "t", "=">>

UrlFragment == <<"/", "p", "#", "?", "l", "i", "s", "t", "=", "A", "B">>

UrlCtl == <<"/", CtlChar, "?", "l", "i", "s", "t", "=", "A", "B">>

UrlSemicolon == <<"/", "p", "?", "l", "i", "s", "t", "=", "A", ";", "B">>

UrlBadEscape == <<"/", "p", "?", "l", "i", "s", "t", "=", "%", "z", "z">>

UrlBadPath == <<"/", "%", "z", "z", "?", "l", "i", "s", "t", "=", "A", "B">>

UrlOtherKey == <<"/", "p", "?", "L", "i", "s", "t", "=", "A", "B">>

UrlInputs ==
    {UrlFull, UrlEscaped, UrlNoQuery, UrlEmptyList, UrlFragment, UrlCtl,
     UrlSemicolon, UrlBadEscape, UrlBadPath, UrlOtherKey}

\* The requests: the URL as a form value, or as the youtube_url of a JSON
\* body, or a body that BodyParser rejects.
Requests ==
    {[form |-> u, bodyOk |-> TRUE, json |-> <<>>] : u \in UrlInputs}
    \cup {[form |-> <<>>, bodyOk |-> TRUE, json |-> UrlTwice],
          [form |-> <<>>, bodyOk |-> TRUE, json |-> <<>>],
          [form |-> <<>>, bodyOk |-> FALSE, json |-> <<>>]}

\* The duration strings the remote reports for videos.
CatalogDurations ==
    {<<"P", "T", "1", "M">>, <<"P", "T", "1", "H", "2", "S">>, <<"P", "1", "D">>}

\* The sizes a listing page of the remote may have (at most MaxResults).
PageSizes == {0, 1, MaxResults}

\* What the remote's Videos.List may return for a batch of identifiers:
\* every video in request order, every video in reverse order, all but the
\* first (an unavailable video is left out), or nothing.
DetailShapes == {"all", "reversed", "dropFirst", "none"}

\* ------------------------------------------------------------ the remote

RECURSIVE SumSeq(_)
SumSeq(s) == IF s = <<>> THEN 0 ELSE s[1] + SumSeq(Tail(s))

\* The video identifiers of listing page k: the videos are numbered in the
\* order of the remote's pages.
PageItems(k) ==
    LET offset == SumSeq(Slice(remotePages, 1, k - 1))
    IN  [j \in 1..remotePages[k] |-> offset + j]

\* The continuation token of page k (0: none); page k is requested with token k.
PageNext(k) == IF k < Len(remotePages) THEN k + 1 ELSE remoteLoop

\* PlaylistItems.List(...).PageToken(token).Do() when it succeeds.
ListResponse(token) ==
    LET k == IF token = 0 THEN 1 ELSE token
    IN  [Items |-> PageItems(k), NextPageToken |-> PageNext(k)]

DurationOf(v) == IF v % 2 = 1 THEN catalog.odd ELSE catalog.even

Reverse(s) == [k \in 1..Len(s) |-> s[Len(s) + 1 - k]]

\* Videos.List(...).Id(batch).Do() when it succeeds.
VideosResponse(batch, shape) ==
    LET ids == CASE shape = "all" -> batch
                 [] shape = "reversed" -> Reverse(batch)
                 [] shape = "dropFirst" -> IF batch = <<>> THEN <<>> ELSE Tail(batch)
                 [] shape = "none" -> <<>>
    IN  [k \in 1..Len(ids) |-> [Id |-> ids[k], Duration |-> DurationOf(ids[k])]]

\* ------------------------------------------------------------ the handler

\* One remote call in the log: the operation, the playlist identifier or
\* the argument it was given (page token, batch of video identifiers), and
\* what the remote answered.
Call(op, id, arg, res) == [op |-> op, id |-> id, arg |-> arg, res |-> res]

\* The handler's youtubeURL: the form value when there is one, else the
\* youtube_url of the parsed body.
BodyURL(req) == IF req.form # <<>> THEN req.form ELSE req.json

\* c.Status(status).JSON({error, message}) / c.JSON(playlist)
Answer(status, error, message, body) ==
    /\ response' = Some([status |-> status, error |-> error,
                         message |-> message, body |-> body])
    /\ pc' = "done"

\* The status the handler gives an error of analyzePlaylist.
ErrorStatus(err) == StatusInternalServerError

\* analyzePlaylist returns (nil, err) and the handler answers it.
AnalyzeFails(err) ==
    /\ analyzeRet' = Some([playlist |-> Nil, err |-> err])
    /\ Answer(ErrorStatus(err), <<"Failed to analyze playlist">>, err, Nil)

\* The handler up to its call of analyzePlaylist.
HandleRequest ==
    /\ pc = "received"
    /\ UNCHANGED <<request, playlistData, allVideoIDs, nextPageToken, i,
                   allVideos, totalDurationSec, videosRet, analyzeRet, calls,
                   remotePages, remoteLoop, catalog, isoDuration, groups, durationOut,
                   parked>>
    /\ \/ /\ request.form = <<>>
          /\ ~request.bodyOk
          /\ Answer(StatusBadRequest, <<"Invalid request format">>,
                    <<"Please provide youtube_url in form data or JSON">>, Nil)
          /\ UNCHANGED <<youtubeURL, playlistId>>
       \/ /\ request.form # <<>> \/ request.bodyOk
          /\ youtubeURL' = BodyURL(request)
          /\ \/ /\ youtubeURL' = <<>>
                /\ Answer(StatusBadRequest, <<"Missing youtube_url">>,
                          <<"Please provide a YouTube playlist URL">>, Nil)
                /\ UNCHANGED playlistId
             \/ /\ youtubeURL' # <<>>
                /\ playlistId' = getPlaylistId(youtubeURL')
                /\ \/ /\ playlistId' = <<>>
                      /\ Answer(StatusBadRequest, <<"Invalid YouTube URL">>,
                                <<"Please provide a valid YouTube playlist URL">>,
                                Nil)
                   \/ /\ playlistId' # <<>>
                      /\ pc' = "analyze"
                      /\ UNCHANGED response

\* ------------------------------------------------------------ analyzePlaylist

\* Mutant of NotFound: the check is inverted.
NotFound_Inverted(items) == Len(items) # 0

\* len(response.Items) == 0 after Playlists.List.
NotFound(items) == Len(items) = 0

\* What Playlists.List may answer: an error, no record, or the record.
LookupOutcomes == {"error", "none", "found"}

\* analyzePlaylist from its start to the first listing call of
\* getPlaylistVideos: the client, the metadata lookup, the not-found check,
\* and the client and locals of getPlaylistVideos.
PlaylistsList ==
    /\ pc = "analyze"
    /\ UNCHANGED <<request, youtubeURL, playlistId, i, allVideos,
                   totalDurationSec, remotePages, remoteLoop, catalog,
                   isoDuration, groups, durationOut, parked>>
    /\ \/ \* getYoutubeClient fails: no call is made
          /\ AnalyzeFails(ErrClient)
          /\ UNCHANGED <<calls, playlistData, allVideoIDs, nextPageToken, videosRet>>
       \/ \E outcome \in LookupOutcomes :
            /\ calls' = Append(calls, Call("Playlists.List", playlistId, <<>>,
                                            outcome))
            /\ \/ /\ outcome = "error"
                  /\ AnalyzeFails(ErrUpstream)
                  /\ UNCHANGED <<playlistData, allVideoIDs, nextPageToken, videosRet>>
               \/ /\ outcome # "error"
                  /\ playlistData' = IF outcome = "found"
                                     THEN <<[Id |-> playlistId]>> ELSE <<>>
                  /\ \/ /\ NotFound(playlistData')
                        /\ AnalyzeFails(ErrNotFound)
                        /\ UNCHANGED <<allVideoIDs, nextPageToken, videosRet>>
                     \/ /\ ~NotFound(playlistData')
                        /\ \/ \* getPlaylistVideos: getYoutubeClient fails
                              /\ videosRet' = Some([videos |-> Nil, total |-> 0,
                                                    err |-> ErrClient])
                              /\ AnalyzeFails(ErrClient)
                              /\ UNCHANGED <<allVideoIDs, nextPageToken>>
                           \/ /\ allVideoIDs' = <<>>
                              /\ nextPageToken' = 0
                              /\ pc' = "listing"
                              /\ UNCHANGED <<videosRet, analyzeRet, response>>

\* ------------------------------------------------------------ getPlaylistVideos

\* Mutant of IsEmpty: the empty check is missing.
IsEmpty_Never(ids) == FALSE

\* len(allVideoIDs) == 0 after the listing loop.
IsEmpty(ids) == Len(ids) = 0

\* Mutant of ListFailure: the identifiers collected so far are returned
\* with the error.
ListFailure_Partial(ids, err) ==
    [videos |-> [k \in 1..Len(ids) |->
                    [Id |-> ids[k], Duration |-> <<>>, DurationSec |-> 0]],
     total |-> 0, err |-> err]

\* return nil, 0, err of a failed listing call.
ListFailure(ids, err) == [videos |-> Nil, total |-> 0, err |-> err]

\* Mutant of DetailFailure: the videos and total of the earlier batches are
\* returned with the error.
DetailFailure_Partial(videos, total, err) ==
    [videos |-> videos, total |-> total, err |-> ErrDetails(err)]

\* return nil, 0, fmt.Errorf(...) of a failed detail call.
DetailFailure(videos, total, err) ==
    [videos |-> Nil, total |-> 0, err |-> ErrDetails(err)]

\* The listing loop ends after this response.
ListingEnds(resp) == Len(resp.Items) = 0 \/ resp.NextPageToken = 0

\* allVideoIDs after the items of a page were appended.
AppendIDs(ids, items) == ids \o items

ListCalls == Len(SelectSeq(calls, LAMBDA c : c.op = "PlaylistItems.List"))

\* One iteration of the listing loop: the call, its error, the page's
\* items, the continuation token; when the loop ends, the empty check.
PlaylistItemsList ==
    /\ pc = "listing"
    /\ ListCalls < MaxListCalls
    /\ UNCHANGED <<request, youtubeURL, playlistId, playlistData,
                   remotePages, remoteLoop, catalog, isoDuration, groups, durationOut,
                   parked>>
    /\ \/ \* call.Do() fails
          /\ calls' = Append(calls, Call("PlaylistItems.List", playlistId,
                                          <<nextPageToken>>, "error"))
          /\ videosRet' = Some(ListFailure(allVideoIDs, ErrUpstream))
          /\ AnalyzeFails(videosRet'[1].err)
          /\ UNCHANGED <<allVideoIDs, nextPageToken, i, allVideos,
                         totalDurationSec>>
       \/ LET resp == ListResponse(nextPageToken)
          IN  /\ calls' = Append(calls, Call("PlaylistItems.List", playlistId,
                                              <<nextPageToken>>, "ok"))
              /\ allVideoIDs' = AppendIDs(allVideoIDs, resp.Items)
              /\ \/ /\ ~ListingEnds(resp)
                    /\ nextPageToken' = resp.NextPageToken
                    /\ UNCHANGED <<i, allVideos, totalDurationSec, videosRet,
                                   analyzeRet, response, pc>>
                 \/ /\ ListingEnds(resp)
                    /\ UNCHANGED nextPageToken
                    /\ \/ /\ IsEmpty(allVideoIDs')
                          /\ videosRet' = Some([videos |-> Nil, total |-> 0,
                                                err |-> ErrEmpty])
                          /\ AnalyzeFails(ErrEmpty)
                          /\ UNCHANGED <<i, allVideos, totalDurationSec>>
                       \/ /\ ~IsEmpty(allVideoIDs')
                          /\ i' = 0
                          /\ allVideos' = <<>>
                          /\ totalDurationSec' = 0
                          /\ pc' = "fetching"
                          /\ UNCHANGED <<videosRet, analyzeRet, response>>

\* A batch one identifier short of the step of the loop.
BatchEnd_Short(idx, n) ==
    IF idx + BatchSize > n THEN n ELSE idx + BatchSize - 1

\* end := i + 50, capped at len(allVideoIDs).
BatchEnd(idx, n) == IF idx + BatchSize > n THEN n ELSE idx + BatchSize

\* batch := allVideoIDs[i:end] (0-based, end exclusive).
Batch(ids, idx) == Slice(ids, idx + 1, BatchEnd(idx, Len(ids)))

\* The Video built from one returned item (Title, Description and Thumbnail
\* are copied from the item as they are and left out here).
MakeVideo(item) ==
    [Id |-> item.Id, Duration |-> item.Duration,
     DurationSec |-> getDurationSec(item.Duration).val]

\* getDurationSec panics on some returned item.
ItemsPanic(items) ==
    \E k \in 1..Len(items) : getDurationSec(items[k].Duration).panic

\* allVideos after the videos of the returned items were appended.
AppendVideos(videos, items) ==
    videos \o [k \in 1..Len(items) |-> MakeVideo(items[k])]

\* The DurationSec of the videos built from items[lo..hi], added up. (The
\* recursion halves the range: the loop's left-to-right += gives the same
\* int, addition modulo 2^IntBits being associative.)
RECURSIVE SumItems(_, _, _)
SumItems(items, lo, hi) ==
    IF lo > hi THEN 0
    ELSE IF lo = hi THEN MakeVideo(items[lo]).DurationSec
    ELSE LET mid == (lo + hi) \div 2
         IN  IntWrap(SumItems(items, lo, mid) + SumItems(items, mid + 1, hi))

\* Mutant of AddDurations: the total restarts at every batch.
AddDurations_PerBatch(total, items) == SumItems(items, 1, Len(items))

\* totalDurationSec after += video.DurationSec for each returned item.
AddDurations(total, items) ==
    IntWrap(total + SumItems(items, 1, Len(items)))

\* return allVideos, totalDurationSec, nil
VideosSuccess(videos, total) == [videos |-> videos, total |-> total, err |-> Nil]

\* The Playlist analyzePlaylist builds (Title, Description and Thumbnail are
\* copied from the metadata record and left out here).
MakePlaylist(data, videos, total) ==
    [Id |-> data.Id, Videos |-> videos, TotalDurationSec |-> total]

\* One iteration of the batching loop: the batch, the detail call, its
\* error, the videos of the returned items; after the last batch the
\* return of getPlaylistVideos, of analyzePlaylist and the handler's answer.
VideosList ==
    /\ pc = "fetching"
    /\ UNCHANGED <<request, youtubeURL, playlistId, playlistData, allVideoIDs,
                   nextPageToken, remotePages, remoteLoop, catalog,
                   isoDuration, groups, durationOut, parked>>
    /\ \/ \* Do() fails
          /\ calls' = Append(calls, Call("Videos.List", <<>>,
                                          Batch(allVideoIDs, i), "error"))
          /\ videosRet' = Some(DetailFailure(allVideos, totalDurationSec,
                                             ErrUpstream))
          /\ AnalyzeFails(videosRet'[1].err)
          /\ UNCHANGED <<i, allVideos, totalDurationSec>>
       \/ \E shape \in DetailShapes :
            LET items == VideosResponse(Batch(allVideoIDs, i), shape)
            IN  /\ calls' = Append(calls, Call("Videos.List", <<>>,
                                                Batch(allVideoIDs, i), shape))
                /\ \/ /\ ItemsPanic(items)
                      /\ pc' = "panic"
                      /\ UNCHANGED <<i, allVideos, totalDurationSec, videosRet,
                                     analyzeRet, response>>
                   \/ /\ ~ItemsPanic(items)
                      /\ allVideos' = AppendVideos(allVideos, items)
                      /\ totalDurationSec' = AddDurations(totalDurationSec, items)
                      /\ i' = i + BatchSize
                      /\ \/ /\ i' < Len(allVideoIDs)
                            /\ UNCHANGED <<pc, videosRet, analyzeRet, response>>
                         \/ /\ i' >= Len(allVideoIDs)
                            /\ videosRet' = Some(VideosSuccess(allVideos',
                                                               totalDurationSec'))
                            /\ analyzeRet' =
                                 Some([playlist |->
                                         Some(MakePlaylist(playlistData[1],
                                                           videosRet'[1].videos,
                                                           videosRet'[1].total)),
                                       err |-> Nil])
                            /\ Answer(StatusOK, Nil, Nil, analyzeRet'[1].playlist)

\* ------------------------------------------------------------ specification

Catalogs == [odd : CatalogDurations, even : CatalogDurations]

\* The remote playlists: 1..NPages pages; the last page's continuation
\* token is none (0) or leads back to an earlier page.
Remotes ==
    {[pages |-> p, loop |-> l] :
        p \in UNION {[1..n -> PageSizes] : n \in 1..NPages}, l \in 0..NPages}

InitLocals ==
    /\ youtubeURL = <<>>
    /\ playlistId = <<>>
    /\ playlistData = <<>>
    /\ allVideoIDs = <<>>
    /\ nextPageToken = 0
    /\ i = 0
    /\ allVideos = <<>>
    /\ totalDurationSec = 0
    /\ videosRet = Nil
    /\ analyzeRet = Nil
    /\ response = Nil
    /\ calls = <<>>

Init ==
    /\ request \in Requests
    /\ pc = "received"
    /\ InitLocals
    /\ \E r \in Remotes :
         /\ r.loop <= Len(r.pages)
         /\ remotePages = r.pages
         /\ remoteLoop = r.loop
    /\ catalog \in Catalogs
    /\ isoDuration = <<>>
    /\ groups = Nil
    /\ durationOut = Nil
    /\ parked = Nil

Next == HandleRequest \/ PlaylistsList \/ PlaylistItemsList \/ VideosList

Spec == Init /\ [][Next]_vars

\* ------------------------------------------------------------ getDurationSec alone

\* The digits of the enumerated unit groups, and digit strings around the
\* largest int.
GroupDigits == {"0", "1", "9"}

BigDigits ==
    {<<"3", "2", "7", "6", "7">>, <<"3", "2", "7", "6", "8">>,
     <<"9", "9", "9", "9", "9">>}

\* A unit group's number: omitted (<<>>) or a digit string.
GroupValues == SeqsUpTo(GroupDigits, MaxDigits) \cup BigDigits

\* The text of one unit group: nothing when omitted, else digits and unit.
GroupText(digits, unit) == IF digits = <<>> THEN <<>> ELSE digits \o <<unit>>

\* The token PT[h]H[m]M[s]S.
Token(g) ==
    <<"P", "T">> \o GroupText(g.h, "H") \o GroupText(g.m, "M")
                 \o GroupText(g.s, "S")

DurationChars == {"P", "T", "H", "M", "S", "D", "1"}

InitDuration ==
    /\ pc = "idle"
    /\ request = [form |-> <<>>, bodyOk |-> FALSE, json |-> <<>>]
    /\ InitLocals
    /\ remotePages = <<>>
    /\ remoteLoop = 0
    /\ catalog = [odd |-> <<>>, even |-> <<>>]
    /\ durationOut = Nil
    /\ parked = Nil
    /\ \/ /\ groups \in {Some(g) : g \in [h : GroupValues, m : GroupValues,
                                          s : GroupValues]}
          /\ isoDuration = Token(groups[1])
       \/ /\ groups = Nil
          /\ isoDuration \in SeqsUpTo(DurationChars, MaxStrLen)

\* A call getDurationSec(isoDuration) that returns.
ParseDuration ==
    /\ durationOut = Nil
    /\ pc = "idle"
    /\ ~getDurationSec(isoDuration).panic
    /\ durationOut' = Some(getDurationSec(isoDuration).val)
    /\ UNCHANGED <<pipelineVars, isoDuration, groups, parked>>

\* A call getDurationSec(isoDuration) that panics.
ParseDurationPanics ==
    /\ durationOut = Nil
    /\ pc = "idle"
    /\ getDurationSec(isoDuration).panic
    /\ pc' = "panic"
    /\ UNCHANGED <<request, youtubeURL, playlistId, playlistData, allVideoIDs,
                   nextPageToken, i, allVideos, totalDurationSec, videosRet,
                   analyzeRet, response, calls, remotePages, remoteLoop,
                   catalog, isoDuration, groups, durationOut,
                   parked>>

NextDuration == ParseDuration \/ ParseDurationPanics

SpecDuration == InitDuration /\ [][NextDuration]_vars

\* ------------------------------------------------------------ claims

\* analyzePlaylist returned a playlist and no error.
Succeeded == analyzeRet # Nil /\ analyzeRet[1].err = Nil

\* The playlist of a successful return.
Returned == analyzeRet[1].playlist[1]

\* The calls of the log with operation op, in order.
CallsOf(op) == SelectSeq(calls, LAMBDA c : c.op = op)

\* The sum of DurationSec over videos[lo..hi], as a mathematical integer.
RECURSIVE SumRange(_, _, _)
SumRange(videos, lo, hi) ==
    IF lo > hi THEN 0
    ELSE IF lo = hi THEN videos[lo].DurationSec
    ELSE LET mid == (lo + hi) \div 2
         IN  SumRange(videos, lo, mid) + SumRange(videos, mid + 1, hi)

\* The sum of DurationSec over a list of videos in int arithmetic (int
\* addition is addition modulo 2^IntBits).
SumDurationSec(videos) == IntWrap(SumRange(videos, 1, Len(videos)))

\* The number of member identifiers on the pages the listing calls were
\* answered with.
RECURSIVE ListedCount(_)
ListedCount(listCalls) ==
    IF listCalls = <<>> THEN 0
    ELSE (IF listCalls[1].res = "ok"
          THEN Len(ListResponse(listCalls[1].arg[1]).Items) ELSE 0)
         + ListedCount(Tail(listCalls))

\* C1: on every successful return of analyzePlaylist, TotalDurationSec is
\* the sum of DurationSec over the videos of its Videos list.
C1_TotalIsSum ==
    Succeeded => Returned.TotalDurationSec = SumDurationSec(Returned.Videos)

\* C1 witness: a success over more than one batch with a non-zero total.
C1_Witness ==
    /\ Succeeded
    /\ Len(CallsOf("Videos.List")) >= 2
    /\ Len(Returned.Videos) > BatchSize
    /\ Returned.TotalDurationSec # 0

\* C2 (as claimed): on every successful return the Videos list is as long
\* as the number of member identifiers the listing pages reported, whatever
\* the detail calls returned.
C2_LengthIsListedCount ==
    Succeeded =>
        Len(Returned.Videos) = ListedCount(CallsOf("PlaylistItems.List"))

\* Position of video identifier v in the listing (0: not listed).
ListingIndex(v) ==
    LET at == {k \in DOMAIN allVideoIDs : allVideoIDs[k] = v}
    IN  IF at = {} THEN 0 ELSE CHOOSE k \in at : \A j \in at : k <= j

\* C3 (as claimed): the Videos of a successful return are in listing order,
\* whatever the order of the items inside a detail response.
C3_ListingOrder ==
    Succeeded =>
        \A k \in 1..(Len(Returned.Videos) - 1) :
            ListingIndex(Returned.Videos[k].Id)
                < ListingIndex(Returned.Videos[k + 1].Id)

\* The request is over with analyzePlaylist failing with err: it returned
\* (nil, err), and the handler answered with err's message and no playlist.
FailedWith(err) ==
    /\ pc = "done"
    /\ analyzeRet = Some([playlist |-> Nil, err |-> err])
    /\ response # Nil
    /\ response[1].status # StatusOK
    /\ response[1].message = err
    /\ response[1].body = Nil

\* getPlaylistVideos returned (nil, 0, err).
VideosFailedWith(err) ==
    videosRet = Some([videos |-> Nil, total |-> 0, err |-> err])

\* Some call of operation op was answered with res.
Answered(op, res) ==
    \E k \in DOMAIN calls : calls[k].op = op /\ calls[k].res = res

\* C4: once the metadata lookup returned no record, analyzePlaylist has
\* failed with the not-found error and the log holds no listing call and no
\* detail call (in that state and in every later one).
C4_NotFoundBeforeListing ==
    Answered("Playlists.List", "none") =>
        /\ FailedWith(ErrNotFound)
        /\ CallsOf("PlaylistItems.List") = <<>>
        /\ CallsOf("Videos.List") = <<>>

\* C4 witness: a lookup that returned no record, answered.
C4_Witness ==
    /\ Answered("Playlists.List", "none")
    /\ response # Nil
    /\ Len(calls) = 1

\* The listing loop has ended without an error.
ListingEnded ==
    /\ pc \in {"fetching", "done", "panic"}
    /\ CallsOf("PlaylistItems.List") # <<>>
    /\ ~Answered("PlaylistItems.List", "error")

\* C5: when the listing ends with zero member identifiers in total, the
\* operation has failed with the empty-playlist error, has returned no
\* success, and has issued no detail call.
C5_EmptyPlaylistFails ==
    (ListingEnded /\ ListedCount(CallsOf("PlaylistItems.List")) = 0) =>
        /\ VideosFailedWith(ErrEmpty)
        /\ FailedWith(ErrEmpty)
        /\ ~Succeeded
        /\ CallsOf("Videos.List") = <<>>

\* C5 witness: a listing whose first page is empty, answered.
C5_Witness ==
    /\ ListingEnded
    /\ ListedCount(CallsOf("PlaylistItems.List")) = 0
    /\ response # Nil

\* C6: once a listing call has failed, it is the last call of the log, and
\* the operation is over: getPlaylistVideos returned no videos, a zero total
\* and the upstream error, which analyzePlaylist and the handler pass on.
C6_ListingFailureAborts ==
    \A k \in DOMAIN calls :
        (calls[k].op = "PlaylistItems.List" /\ calls[k].res = "error") =>
            /\ k = Len(calls)
            /\ VideosFailedWith(ErrUpstream)
            /\ FailedWith(ErrUpstream)

\* C6 witness: the second listing call fails after a first page with members.
C6_Witness ==
    /\ Len(CallsOf("PlaylistItems.List")) = 2
    /\ Answered("PlaylistItems.List", "error")
    /\ allVideoIDs # <<>>
    /\ response # Nil

\* C7: once a detail call has failed, it is the last call of the log (the
\* chunk is not requested again, no later chunk is requested), and the
\* operation is over: getPlaylistVideos returned no videos, a zero total and
\* the error, which analyzePlaylist and the handler pass on.
C7_DetailFailureAborts ==
    \A k \in DOMAIN calls :
        (calls[k].op = "Videos.List" /\ calls[k].res = "error") =>
            /\ k = Len(calls)
            /\ VideosFailedWith(ErrDetails(ErrUpstream))
            /\ FailedWith(ErrDetails(ErrUpstream))

\* C7 witness: the second chunk's call fails after videos were built from
\* the first chunk, and further chunks were still to come.
C7_Witness ==
    /\ Len(CallsOf("Videos.List")) = 2
    /\ calls[Len(calls)].arg # <<>>
    /\ Answered("Videos.List", "error")
    /\ allVideos # <<>>
    /\ totalDurationSec # 0
    /\ Len(allVideoIDs) > 2 * BatchSize
    /\ response # Nil

\* The errors of failed remote calls.
RemoteFailures == {ErrUpstream, ErrDetails(ErrUpstream)}

\* C8 (as claimed): the handler answers a not-found failure and an
\* empty-playlist failure with client errors (4xx), and answers with a
\* server-side error (5xx) only failures of remote calls.
C8_ClientErrors ==
    (response # Nil /\ analyzeRet # Nil) =>
        /\ analyzeRet[1].err \in {ErrNotFound, ErrEmpty} =>
              response[1].status \in 400..499
        /\ response[1].status \in 500..599 =>
              analyzeRet[1].err \in RemoteFailures

\* The URL the request submitted (when its body was readable).
Submitted == BodyURL(request)

\* The value of the list query parameter of each input URL, by the URL's
\* reading: empty for a URL that does not parse and for one without a
\* (non-empty) list parameter in its query.
ListValue(url) ==
    CASE url = UrlFull -> <<"B">>
      [] url = UrlEscaped -> <<"A", "B">>
      [] url = UrlTwice -> <<"A">>
      [] OTHER -> <<>>

\* The handler answered 400 "Invalid YouTube URL".
AnsweredInvalidURL ==
    /\ response # Nil
    /\ response[1].status = StatusBadRequest
    /\ response[1].error = <<"Invalid YouTube URL">>

\* C9: analyzePlaylist is called with exactly the value of the URL's list
\* parameter, and so is every remote call that names the playlist; a request
\* whose URL does not parse or has no list parameter is answered 400
\* "Invalid YouTube URL" with no remote call.
C9_ListParameterPassed ==
    /\ pc \in {"analyze", "listing", "fetching"} \/ calls # <<>> =>
          /\ playlistId = ListValue(Submitted)
          /\ playlistId # <<>>
    /\ \A k \in DOMAIN calls :
          calls[k].op \in {"Playlists.List", "PlaylistItems.List"} =>
              calls[k].id = ListValue(Submitted)
    /\ (/\ pc # "received"
        /\ request.form # <<>> \/ request.bodyOk
        /\ Submitted # <<>>
        /\ ListValue(Submitted) = <<>>) =>
          /\ AnsweredInvalidURL
          /\ pc = "done"
          /\ calls = <<>>

\* C9 witness: a request whose list parameter is percent-encoded went
\* through the pipeline with the decoded value.
C9_Witness ==
    /\ Submitted = UrlEscaped
    /\ pc = "done"
    /\ response[1].status = StatusOK
    /\ Len(calls) >= 3
    /\ calls[2].id = <<"A", "B">>

\* The number a digit string writes (0 for an omitted group), as a
\* mathematical integer.
RECURSIVE DecimalValue(_)
DecimalValue(digits) ==
    IF digits = <<>> THEN 0
    ELSE DecimalValue(Slice(digits, 1, Len(digits) - 1)) * 10
         + DigitVal(digits[Len(digits)])

\* h*3600 + m*60 + s for the groups of a token.
Seconds(g) ==
    DecimalValue(g.h) * 3600 + DecimalValue(g.m) * 60 + DecimalValue(g.s)

\* C10 (as claimed): for every token PT[h]H[m]M[s]S, getDurationSec returns
\* h*3600 + m*60 + s, omitted groups counting 0, and never a negative number.
C10_SecondsOfEveryToken ==
    groups # Nil =>
        /\ pc # "panic"
        /\ durationOut # Nil =>
              /\ durationOut[1] = Seconds(groups[1])
              /\ durationOut[1] >= 0

\* C10 (amended): the same for every token whose h*3600 + m*60 + s is at
\* most the largest int.
C10_SecondsOfRepresentableToken ==
    (groups # Nil /\ Seconds(groups[1]) <= IntMax) =>
        /\ pc # "panic"
        /\ durationOut # Nil =>
              /\ durationOut[1] = Seconds(groups[1])
              /\ durationOut[1] >= 0

\* C10 witness: PT1H19S, the minutes omitted, parsed to 3619.
C10_Witness ==
    /\ groups = Some([h |-> <<"1">>, m |-> <<>>, s |-> <<"1", "9">>])
    /\ durationOut = Some(3619)

\* C11 (as claimed): getDurationSec returns an integer for every input
\* string and never panics.
C11_NeverPanics == pc # "panic"

\* The identifiers of the remote's pages k, k+1, ... in page order.
RECURSIVE PagesFrom(_)
PagesFrom(k) ==
    IF k > Len(remotePages) THEN <<>> ELSE PageItems(k) \o PagesFrom(k + 1)

\* C12 (as claimed): every listing call after the first passes the
\* continuation token of the previous response; the loop ends only on a
\* response without token; and the identifiers accumulated are those of
\* every page of the remote, in page order (the remote's chain being finite).
C12_FollowsEveryToken ==
    LET lists == CallsOf("PlaylistItems.List")
    IN  /\ \A k \in 2..Len(lists) :
              lists[k].arg[1] = ListResponse(lists[k - 1].arg[1]).NextPageToken
        /\ ListingEnded =>
              /\ ListResponse(lists[Len(lists)].arg[1]).NextPageToken = 0
              /\ remoteLoop = 0 => allVideoIDs = PagesFrom(1)

\* ceil(n / BatchSize)
Chunks(n) == (n + BatchSize - 1) \div BatchSize

\* The identifiers passed by the detail calls k, k+1, ... of the log.
RECURSIVE ArgsFrom(_, _)
ArgsFrom(details, k) ==
    IF k > Len(details) THEN <<>> ELSE details[k].arg \o ArgsFrom(details, k + 1)

\* C13: the k-th detail call passes the k-th consecutive slice of the
\* identifier list, of 1 to 50 identifiers; never more than ceil(n/50) calls
\* are made; and a run the remote lets complete has made exactly ceil(n/50)
\* calls whose batches concatenate to the whole list.
C13_ConsecutiveChunks ==
    LET details == CallsOf("Videos.List")
        n == Len(allVideoIDs)
    IN  /\ Len(details) <= Chunks(n)
        /\ \A k \in 1..Len(details) :
              /\ Len(details[k].arg) \in 1..BatchSize
              /\ details[k].arg =
                   SubSeq(allVideoIDs, BatchSize * (k - 1) + 1,
                          IF BatchSize * k < n THEN BatchSize * k ELSE n)
        /\ Succeeded =>
              /\ n >= 1
              /\ Len(details) = Chunks(n)
              /\ ArgsFrom(details, 1) = allVideoIDs

\* A list of 101 identifiers fetched in three calls of 50, 50 and 1.
C13_Witness ==
    /\ Succeeded
    /\ Len(allVideoIDs) = 2 * BatchSize + 1
    /\ Len(CallsOf("Videos.List")) = 3
    /\ Len(calls[Len(calls)].arg) = 1

\* What a unit group counts when an unrepresentable number counts 0.
LenientValue(digits) ==
    IF DecimalValue(digits) > IntMax THEN 0 ELSE DecimalValue(digits)

\* The seconds of a token when each unrepresentable group counts 0 and
\* every other group counts its value.
LenientSeconds(g) ==
    LenientValue(g.h) * 3600 + LenientValue(g.m) * 60 + LenientValue(g.s)

\* C14 (as claimed): for a token with a group whose number is not
\* representable, getDurationSec counts 0 for that group only and the value
\* of every other group (the sum being representable).
C14_BadGroupCountsZeroAlone ==
    (/\ groups # Nil
     /\ durationOut # Nil
     /\ \E u \in {"h", "m", "s"} : DecimalValue(groups[1][u]) > IntMax
     /\ LenientSeconds(groups[1]) <= IntMax)
        => durationOut[1] = LenientSeconds(groups[1])

\* ------------------------------------------------------------ two requests in flight

\* The handler's locals of the request that is running: each request runs
\* the handler in a goroutine of its own, with its own locals and its own
\* youtube.Service.
Locals ==
    [request |-> request, pc |-> pc, youtubeURL |-> youtubeURL,
     playlistId |-> playlistId, playlistData |-> playlistData,
     allVideoIDs |-> allVideoIDs, nextPageToken |-> nextPageToken, i |-> i,
     allVideos |-> allVideos, totalDurationSec |-> totalDurationSec,
     videosRet |-> videosRet, analyzeRet |-> analyzeRet,
     response |-> response, calls |-> calls]

\* The locals of a request that has just been received.
Received(req) ==
    [request |-> req, pc |-> "received", youtubeURL |-> <<>>,
     playlistId |-> <<>>, playlistData |-> <<>>, allVideoIDs |-> <<>>,
     nextPageToken |-> 0, i |-> 0, allVideos |-> <<>>, totalDurationSec |-> 0,
     videosRet |-> Nil, analyzeRet |-> Nil, response |-> Nil, calls |-> <<>>]

\* The scheduler runs the other request's goroutine, which resumes with its
\* own locals.
Yield ==
    /\ parked # Nil
    /\ pc \in {"received", "analyze", "listing", "fetching", "done"}
    /\ parked[1].pc # "aborted"
    /\ parked' = Some(Locals)
    /\ LET r == parked[1]
       IN  /\ request' = r.request
           /\ pc' = r.pc
           /\ youtubeURL' = r.youtubeURL
           /\ playlistId' = r.playlistId
           /\ playlistData' = r.playlistData
           /\ allVideoIDs' = r.allVideoIDs
           /\ nextPageToken' = r.nextPageToken
           /\ i' = r.i
           /\ allVideos' = r.allVideos
           /\ totalDurationSec' = r.totalDurationSec
           /\ videosRet' = r.videosRet
           /\ analyzeRet' = r.analyzeRet
           /\ response' = r.response
           /\ calls' = r.calls
    /\ UNCHANGED <<remotePages, remoteLoop, catalog, isoDuration, groups,
                   durationOut>>

\* The panic of the running request is recovered by nobody (main installs
\* no recover handler), so the process exits and the other request, if it
\* has not been answered, is cut off.
Crash ==
    /\ pc = "panic"
    /\ parked # Nil
    /\ parked[1].pc \in {"received", "analyze", "listing", "fetching"}
    /\ parked' = Some([parked[1] EXCEPT !.pc = "aborted"])
    /\ UNCHANGED <<pipelineVars, isoDuration, groups, durationOut>>

\* The requests of the concurrent runs: one with a playlist id and one
\* without.
ConcurrentRequests ==
    {[form |-> UrlFull, bodyOk |-> TRUE, json |-> <<>>],
     [form |-> UrlNoQuery, bodyOk |-> TRUE, json |-> <<>>]}

\* The remote of the concurrent runs: two pages, the first one full.
InitConcurrent ==
    /\ request \in Requests
    /\ pc = "received"
    /\ InitLocals
    /\ parked \in {Some(Received(req)) : req \in ConcurrentRequests}
    /\ remotePages \in {<<MaxResults, 1>>, <<0, 1>>}
    /\ remoteLoop \in {0, 1}
    /\ catalog \in Catalogs
    /\ isoDuration = <<>>
    /\ groups = Nil
    /\ durationOut = Nil

NextConcurrent == Next \/ Yield \/ Crash

SpecConcurrent == InitConcurrent /\ [][NextConcurrent]_vars

\* C15 (as claimed): no step of one request changes the locals of the other
\* (a step of the running request leaves the other's locals as they are, and
\* a switch of goroutines changes the locals of neither), so each request
\* proceeds to the outcome of a run of its own.
C15_RequestsIndependent ==
    [][parked # Nil =>
          \/ parked' = parked
          \/ parked' = Some(Locals) /\ Locals' = parked[1]]_vars

\* ------------------------------------------------------------ termination

\* The runs checked for termination: every request, against a remote whose
\* token chain ends or leads back to the first page.
InitLive ==
    /\ request \in Requests
    /\ pc = "received"
    /\ InitLocals
    /\ remotePages \in {<<0>>, <<1>>, <<MaxResults, 1>>}
    /\ remoteLoop \in {0, 1}
    /\ catalog \in [odd : {<<"P", "T", "1", "M">>},
                    even : {<<"P", "T", "1", "M">>, <<"P", "1", "D">>}]
    /\ isoDuration = <<>>
    /\ groups = Nil
    /\ durationOut = Nil
    /\ parked = Nil

\* The steps of analyzePlaylist and getPlaylistVideos: the remote calls and
\* the two loops.
Pipeline == PlaylistsList \/ PlaylistItemsList \/ VideosList

\* Once analyzePlaylist is called it runs to its end: a remote call that has
\* been issued returns, and the code after it runs (the calls are blocking
\* Do() calls of one goroutine, with nothing to wait for in between).
SpecLive == InitLive /\ [][Next]_vars /\ WF_vars(Pipeline)

\* C16 (as claimed): when the remote's chain of continuation tokens is
\* finite, a request that has reached analyzePlaylist is eventually answered
\* with a summary or an error.
C16_Terminates ==
    (pc = "analyze" /\ remoteLoop = 0) ~> (pc = "done" /\ response # Nil)

\* C17 (as claimed): every summary returned as a success holds at least one
\* video, so total_duration_sec / videos.length has a divisor other than 0.
C17_SuccessHasVideo ==
    (Succeeded /\ response # Nil /\ response[1].status = StatusOK)
        => Len(response[1].body[1].Videos) >= 1

====
